---- MODULE Spec2Model ----
(***************************************************************************)
(* Model of cortex/tarball_helper.py: the TarballHelper class (tracking    *)
(* file, analyze, suggest_apt_packages, install_deps, track, cleanup) and  *)
(* the __main__ command dispatch.  Several invocations of the tool may run *)
(* against the same tracking file.                                         *)
(*                                                                         *)
(* Strings that the code transforms (dependency and package names) are     *)
(* sequences of one-character strings, so that lower() and concatenation   *)
(* are computed.  A build file's text is a sequence of tokens, one per     *)
(* place where one of the five regular expressions could match.            *)
(***************************************************************************)
EXTENDS Integers, Sequences, FiniteSets, TLC

\* ---------------------------------------------------------------- bounds
\* longest package / dependency list handed to install_deps and
\* suggest_apt_packages by a direct caller
MaxPkgs == 2

\* ------------------------------------------------------------- utilities
Range(s) == {s[k] : k \in 1..Len(s)}

NoDup(s) == \A a, b \in 1..Len(s) : s[a] = s[b] => a = b

Count(s, x) == Cardinality({k \in 1..Len(s) : s[k] = x})

SeqsUpTo(S, n) == UNION {[1..m -> S] : m \in 0..n}

\* every ordering of a finite set (the iteration order of a Python set)
Orders(S) == {s \in [1..Cardinality(S) -> S] : Range(s) = S}

\* ---------------------------------------------------------------- strings
UpperCase == <<"A","B","C","D","E","F","G","H","I","J","K","L","M",
               "N","O","P","Q","R","S","T","U","V","W","X","Y","Z">>

LowerCase == <<"a","b","c","d","e","f","g","h","i","j","k","l","m",
               "n","o","p","q","r","s","t","u","v","w","x","y","z">>

\* str.lower() on one character
lower_char(c) ==
    IF \E k \in 1..26 : UpperCase[k] = c
    THEN LowerCase[CHOOSE k \in 1..26 : UpperCase[k] = c]
    ELSE c

\* str.lower()
lower(s) == [k \in 1..Len(s) |-> lower_char(s[k])]

\* dependency names that occur in the build files of the model
DepZ  == <<"Z">>
Depz  == <<"z">>
DepAb == <<"A", "b">>
DepNames == {DepZ, Depz, DepAb}

\* ------------------------------------------------------ suggest_apt_packages
\* a dict is a sequence of <<key, value>> pairs in insertion order
DictKeys(d) == {d[k][1] : k \in 1..Len(d)}

DictSet(d, key, val) ==
    IF key \in DictKeys(d)
    THEN [k \in 1..Len(d) |-> IF d[k][1] = key THEN <<key, val>> ELSE d[k]]
    ELSE Append(d, <<key, val>>)

DictValues(d) == [k \in 1..Len(d) |-> d[k][2]]

\* mutant: the name is not lowercased
apt_name_nolower(dep) == <<"l", "i", "b">> \o dep \o <<"-", "d", "e", "v">>

\* f"lib{dep.lower()}-dev"
apt_name(dep) == <<"l", "i", "b">> \o lower(dep) \o <<"-", "d", "e", "v">>

RECURSIVE suggest_from(_, _)
suggest_from(mapping, deps) ==
    IF deps = <<>> THEN mapping
    ELSE suggest_from(DictSet(mapping, Head(deps), apt_name(Head(deps))), Tail(deps))

suggest_apt_packages(deps) == suggest_from(<<>>, deps)

\* packages a caller may name
PkgFoo == <<"l", "i", "b", "f", "o", "o", "-", "d", "e", "v">>
Pkgs == {apt_name(d) : d \in DepNames} \cup {PkgFoo}

\* ------------------------------------------------------------ build files
\* One token per place in a file's text where a pattern of
\* _parse_dependencies could match; "bytes" is a run of undecodable bytes,
\* "text" is anything else.  names holds the captured name (for
\* install_requires: the quoted strings of the list literal).
Tok(kind, names) == [kind |-> kind, names |-> names]

\* a directory entry that os.walk reports as a file
\* mode "ok": open() succeeds; "noperm": open() raises OSError
BuildFile(name, mode, content) == [name |-> name, mode |-> mode, content |-> content]

RecognizedNames == {"CMakeLists.txt", "configure.ac", "meson.build", "Makefile", "setup.py"}

\* the patterns dict: file name -> kind of text its regular expression matches
patterns(fname) ==
    CASE fname = "CMakeLists.txt" -> "find_package"
      [] fname = "meson.build"    -> "dependency"
      [] fname = "configure.ac"   -> "AC_CHECK_LIB"
      [] fname = "Makefile"       -> "-l"
      [] fname = "setup.py"       -> "install_requires"

\* open(fpath, errors="ignore").read(): undecodable bytes are dropped
read_ignore(content) == SelectSeq(content, LAMBDA t : t.kind # "bytes")

\* _parse_dependencies(fname, content): the set of names found
parse_dependencies(fname, content) ==
    IF fname \in RecognizedNames
    THEN LET matches == SelectSeq(content, LAMBDA t : t.kind = patterns(fname))
         IN  IF fname = "setup.py"
             THEN UNION {Range(matches[k].names) : k \in 1..Len(matches)}
             ELSE {matches[k].names[1] : k \in 1..Len(matches)}
    ELSE {}

\* analyze(path) up to list(deps): tree is the sequence of files os.walk
\* yields (empty for a root that does not exist).  open() of a recognized
\* file that cannot be opened raises, and the exception leaves analyze.
analyze(tree) ==
    LET rec == {k \in 1..Len(tree) : tree[k].name \in RecognizedNames}
    IN  [error |-> \E k \in rec : tree[k].mode = "noperm",
         deps  |-> UNION {parse_dependencies(tree[k].name, read_ignore(tree[k].content)) :
                             k \in rec}]

\* the source trees of the model
FileCMake  == BuildFile("CMakeLists.txt", "ok",
                 <<Tok("find_package", <<DepZ>>), Tok("text", <<>>),
                   Tok("find_package", <<DepAb>>), Tok("-l", <<Depz>>)>>)
FileMeson  == BuildFile("meson.build", "ok",
                 <<Tok("dependency", <<Depz>>), Tok("bytes", <<>>)>>)
FileSetup  == BuildFile("setup.py", "ok",
                 <<Tok("install_requires", <<DepAb, Depz>>), Tok("find_package", <<DepZ>>)>>)
FileLocked == BuildFile("Makefile", "noperm", <<Tok("-l", <<Depz>>)>>)
FileReadme == BuildFile("README", "ok", <<Tok("find_package", <<DepZ>>)>>)
FileOther  == BuildFile("notes.txt", "noperm", <<Tok("-l", <<DepAb>>)>>)

Trees ==
    { <<>>,
      <<FileReadme>>,
      <<FileCMake>>,
      <<FileMeson, FileReadme>>,
      <<FileSetup, FileOther>>,
      <<FileCMake, FileMeson>>,
      <<FileMeson, FileLocked>>,
      <<FileLocked, FileCMake>> }

\* ---------------------------------------------------------- tracking file
\* MANUAL_TRACK_FILE: absent, not JSON, JSON that is not an object, or a
\* JSON object (with or without a "packages" array)
FileAbsent    == [kind |-> "absent",    hasPackages |-> FALSE, packages |-> <<>>]
FileMalformed == [kind |-> "malformed", hasPackages |-> FALSE, packages |-> <<>>]
FileNonObject == [kind |-> "nonobject", hasPackages |-> FALSE, packages |-> <<>>]
FileNoField   == [kind |-> "object",    hasPackages |-> FALSE, packages |-> <<>>]
FileObject(p) == [kind |-> "object",    hasPackages |-> TRUE,  packages |-> p]

\* mutant: a file that cannot be decoded is read as an empty list
load_reset_on_error(f) ==
    IF f.kind = "object" /\ f.hasPackages
    THEN [error |-> "none", value |-> f.packages]
    ELSE [error |-> "none", value |-> <<>>]

\* mutant: the file is never read
load_nothing(f) ==
    CASE f.kind = "malformed" -> [error |-> "JSONDecodeError", value |-> <<>>]
      [] f.kind = "nonobject" -> [error |-> "AttributeError",  value |-> <<>>]
      [] OTHER                -> [error |-> "none", value |-> <<>>]

\* _load_tracked_packages
load_tracked_packages(f) ==
    CASE f.kind = "absent"    -> [error |-> "none", value |-> <<>>]
      [] f.kind = "malformed" -> [error |-> "JSONDecodeError", value |-> <<>>]
      [] f.kind = "nonobject" -> [error |-> "AttributeError",  value |-> <<>>]
      [] f.kind = "object"    ->
            [error |-> "none", value |-> IF f.hasPackages THEN f.packages ELSE <<>>]

\* _save_tracked_packages: the file is rewritten in full
save_tracked_packages(t) == FileObject(t)

\* what a permissive reader finds in the file's packages array
FilePackages(f) == IF f.kind = "object" /\ f.hasPackages THEN f.packages ELSE <<>>

\* mutant: no membership test before the append
track_always(t, pkg) == [list |-> Append(t, pkg), save |-> TRUE]

\* mutant: the new entry is not saved
track_nosave(t, pkg) ==
    IF pkg \notin Range(t)
    THEN [list |-> Append(t, pkg), save |-> FALSE]
    ELSE [list |-> t, save |-> FALSE]

\* track(pkg): the new tracked list, and whether the file is saved
track(t, pkg) ==
    IF pkg \notin Range(t)
    THEN [list |-> Append(t, pkg), save |-> TRUE]
    ELSE [list |-> t, save |-> FALSE]

\* ------------------------------------------------------- package manager
\* exit statuses of "sudo apt-get install/remove -y pkg"
ExitCodes == {0, 100}

Event(e, pkg, rc) == [e |-> e, pkg |-> pkg, rc |-> rc]
SaveEvent == Event("save", <<>>, 0)

\* the events of one track(pkg) call
track_events(t, pkg) ==
    <<Event("track", pkg, 0)>> \o (IF track(t, pkg).save THEN <<SaveEvent>> ELSE <<>>)

\* mutant: the package is tracked only when its install command succeeded
install_one_on_success(t, pkg, rc) ==
    IF rc = 0
    THEN [raised |-> FALSE, list |-> track(t, pkg).list, save |-> track(t, pkg).save,
          events |-> <<Event("install", pkg, rc)>> \o track_events(t, pkg)]
    ELSE [raised |-> FALSE, list |-> t, save |-> FALSE,
          events |-> <<Event("install", pkg, rc)>>]

\* one iteration of the loop of install_deps: the install command is run,
\* its exit status is dropped (check=False), then track(pkg)
install_one(t, pkg, rc) ==
    [raised |-> FALSE, list |-> track(t, pkg).list, save |-> track(t, pkg).save,
     events |-> <<Event("install", pkg, rc)>> \o track_events(t, pkg)]

\* mutant: subprocess.run(..., check=True): a failed removal raises
cleanup_one_checked(pkg, rc) ==
    [raised |-> rc # 0, events |-> <<Event("remove", pkg, rc)>>]

\* one iteration of the loop of cleanup: the remove command is run and its
\* exit status is dropped (check=False)
cleanup_one(pkg, rc) == [raised |-> FALSE, events |-> <<Event("remove", pkg, rc)>>]

\* mutant: cleanup forgets to save
cleanup_end_nosave(f) == [list |-> <<>>, file |-> f, events |-> <<>>]

\* the end of cleanup: tracked_packages = [] and _save_tracked_packages()
cleanup_end(f) ==
    [list |-> <<>>, file |-> save_tracked_packages(<<>>), events |-> <<SaveEvent>>]

\* ------------------------------------------------------------ command line
\* the subparsers __main__ registers
Subcommands == {"analyze", "install-deps", "cleanup"}

\* the commands of the module docstring's Usage, and no command at all
Commands == {"analyze", "install-deps", "track", "cleanup", "none"}

\* ------------------------------------------------------------------ state
\* invocations of the tool (processes holding one TarballHelper each)
Inst == {"A", "B"}

VARIABLES
    file,        \* contents of MANUAL_TRACK_FILE
    pc,          \* where each invocation stands
    argv,        \* its command line ("lib": a caller using the class directly)
    tracked,     \* its helper's self.tracked_packages
    queue,       \* what is left of the list a running loop iterates
    call,        \* the method call in progress or last completed
    prev,        \* the name of the call before that
    log,         \* commands run, track calls and saves of that call, in order
    loaded,      \* what kind of file the constructor found
    overlapped,  \* an invocation started while another was running
    pending      \* packages tracked since the last completed cleanup

vars == <<file, pc, argv, tracked, queue, call, prev, log, loaded, overlapped, pending>>

FileShape(f) == [kind |-> f.kind, hasPackages |-> f.hasPackages]
NotLoaded == [kind |-> "none", hasPackages |-> FALSE]
NoArgv == [command |-> "idle", pkg |-> <<>>]
NoCall == [name |-> "none", args |-> <<>>, before |-> <<>>, error |-> FALSE, result |-> <<>>]

Alive(j) == pc[j] \in {"main", "mapping", "ready", "installing", "cleaning"}

InitFiles ==
    {FileAbsent, FileMalformed, FileNonObject, FileNoField}
        \cup {FileObject(s) : s \in {q \in SeqsUpTo(Pkgs, MaxPkgs) : NoDup(q)}}

Init ==
    /\ file \in InitFiles
    /\ pc = [i \in Inst |-> "idle"]
    /\ argv = [i \in Inst |-> NoArgv]
    /\ tracked = [i \in Inst |-> <<>>]
    /\ queue = [i \in Inst |-> <<>>]
    /\ call = [i \in Inst |-> NoCall]
    /\ prev = [i \in Inst |-> "none"]
    /\ log = [i \in Inst |-> <<>>]
    /\ loaded = [i \in Inst |-> NotLoaded]
    /\ overlapped = FALSE
    /\ pending = Range(FilePackages(file))

\* a method call starts: it becomes the current call, with an empty log
StartCall(i, name, args, error, result) ==
    /\ call' = [call EXCEPT ![i] = [name |-> name, args |-> args, before |-> tracked[i],
                                    error |-> error, result |-> result]]
    /\ prev' = [prev EXCEPT ![i] = call[i].name]

\* TarballHelper(): __init__ loads the tracking file
Construct(i, ok, failed) ==
    LET r == load_tracked_packages(file)
    IN  /\ loaded' = [loaded EXCEPT ![i] = FileShape(file)]
        /\ overlapped' = (overlapped \/ \E j \in Inst \ {i} : Alive(j))
        /\ tracked' = [tracked EXCEPT ![i] = r.value]
        /\ pc' = [pc EXCEPT ![i] = IF r.error = "none" THEN ok ELSE failed]

\* ------------------------------------------------- the class, used directly
\* helper = TarballHelper() in a caller's process (the tests do this); a
\* load error reaches the caller and no helper exists
NewHelper(i) ==
    /\ pc[i] = "idle"
    /\ argv' = [argv EXCEPT ![i] = [command |-> "lib", pkg |-> <<>>]]
    /\ Construct(i, "ready", "loaderror")
    /\ UNCHANGED <<file, queue, call, prev, log, pending>>

CanCall(i) == pc[i] = "ready" /\ argv[i].command = "lib"

\* helper.track(pkg)
Track(i, pkg) ==
    /\ CanCall(i)
    /\ StartCall(i, "track", <<pkg>>, FALSE, <<>>)
    /\ tracked' = [tracked EXCEPT ![i] = track(tracked[i], pkg).list]
    /\ file' = IF track(tracked[i], pkg).save
               THEN save_tracked_packages(track(tracked[i], pkg).list)
               ELSE file
    /\ log' = [log EXCEPT ![i] = track_events(tracked[i], pkg)]
    /\ pending' = pending \cup {pkg}
    /\ UNCHANGED <<pc, argv, queue, loaded, overlapped>>

\* install_deps(pkgs) is entered: nothing has been installed yet
BeginInstall(i, pkgs) ==
    /\ StartCall(i, "install", pkgs, FALSE, <<>>)
    /\ queue' = [queue EXCEPT ![i] = pkgs]
    /\ log' = [log EXCEPT ![i] = <<>>]
    /\ pc' = [pc EXCEPT ![i] = IF pkgs = <<>> THEN "ready" ELSE "installing"]
    /\ UNCHANGED <<file, tracked, pending>>

\* helper.install_deps(pkgs)
InstallDeps(i, pkgs) ==
    /\ CanCall(i)
    /\ BeginInstall(i, pkgs)
    /\ UNCHANGED <<argv, loaded, overlapped>>

\* one iteration of the loop of install_deps; rc is the exit status of apt-get
InstallStep(i, rc) ==
    /\ pc[i] = "installing"
    /\ LET pkg == Head(queue[i])
           r   == install_one(tracked[i], pkg, rc)
       IN  /\ log' = [log EXCEPT ![i] = log[i] \o r.events]
           /\ tracked' = [tracked EXCEPT ![i] = r.list]
           /\ file' = IF r.save THEN save_tracked_packages(r.list) ELSE file
           /\ pending' = IF Event("track", pkg, 0) \in Range(r.events)
                         THEN pending \cup {pkg} ELSE pending
           /\ queue' = [queue EXCEPT ![i] = IF r.raised THEN <<>> ELSE Tail(queue[i])]
           /\ pc' = [pc EXCEPT ![i] = IF r.raised THEN "crashed"
                                      ELSE IF Tail(queue[i]) = <<>> THEN "ready"
                                      ELSE "installing"]
    /\ UNCHANGED <<argv, call, prev, loaded, overlapped>>

\* cleanup() is entered: the loop will iterate self.tracked_packages
BeginCleanup(i) ==
    /\ StartCall(i, "cleanup", <<>>, FALSE, <<>>)
    /\ queue' = [queue EXCEPT ![i] = tracked[i]]
    /\ log' = [log EXCEPT ![i] = <<>>]
    /\ pc' = [pc EXCEPT ![i] = "cleaning"]
    /\ UNCHANGED <<file, tracked, pending>>

\* helper.cleanup()
Cleanup(i) ==
    /\ CanCall(i)
    /\ BeginCleanup(i)
    /\ UNCHANGED <<argv, loaded, overlapped>>

\* one iteration of the loop of cleanup; rc is the exit status of apt-get
CleanupStep(i, rc) ==
    /\ pc[i] = "cleaning"
    /\ queue[i] # <<>>
    /\ LET r == cleanup_one(Head(queue[i]), rc)
       IN  /\ log' = [log EXCEPT ![i] = log[i] \o r.events]
           /\ queue' = [queue EXCEPT ![i] = IF r.raised THEN <<>> ELSE Tail(queue[i])]
           /\ pc' = [pc EXCEPT ![i] = IF r.raised THEN "crashed" ELSE "cleaning"]
    /\ UNCHANGED <<file, argv, tracked, call, prev, loaded, overlapped, pending>>

\* the loop of cleanup is over: the list is reset and saved
CleanupFinish(i) ==
    /\ pc[i] = "cleaning"
    /\ queue[i] = <<>>
    /\ LET r == cleanup_end(file)
       IN  /\ tracked' = [tracked EXCEPT ![i] = r.list]
           /\ file' = r.file
           /\ log' = [log EXCEPT ![i] = log[i] \o r.events]
    /\ pending' = {}
    /\ pc' = [pc EXCEPT ![i] = "ready"]
    /\ UNCHANGED <<argv, queue, call, prev, loaded, overlapped>>

\* helper.analyze(path): order is the order list(deps) gives the set; when
\* open() raises, the exception reaches the caller and nothing is returned
DoAnalyze(i, tree, ok, failed) ==
    LET r == analyze(tree)
    IN  /\ \E order \in Orders(r.deps) :
            StartCall(i, "analyze", tree, r.error, IF r.error THEN <<>> ELSE order)
        /\ log' = [log EXCEPT ![i] = <<>>]
        /\ pc' = [pc EXCEPT ![i] = IF r.error THEN failed ELSE ok]

Analyze(i, tree) ==
    /\ CanCall(i)
    /\ DoAnalyze(i, tree, "ready", "ready")
    /\ UNCHANGED <<file, argv, tracked, queue, loaded, overlapped, pending>>

\* helper.suggest_apt_packages(deps)
Suggest(i, deps) ==
    /\ CanCall(i)
    /\ StartCall(i, "suggest", deps, FALSE, suggest_apt_packages(deps))
    /\ log' = [log EXCEPT ![i] = <<>>]
    /\ UNCHANGED <<file, pc, argv, tracked, queue, loaded, overlapped, pending>>

\* --------------------------------------------------------------- __main__
\* parser.parse_args() and helper = TarballHelper(): a command that is not
\* a registered subparser makes argparse exit before the helper is built
MainStart(i, av) ==
    /\ pc[i] = "idle"
    /\ argv' = [argv EXCEPT ![i] = av]
    /\ IF av.command \in Subcommands \cup {"none"}
       THEN Construct(i, "main", "loaderror")
       ELSE /\ pc' = [pc EXCEPT ![i] = "argerror"]
            /\ UNCHANGED <<tracked, loaded, overlapped>>
    /\ UNCHANGED <<file, queue, call, prev, log, pending>>

\* deps = helper.analyze(args.path), for analyze and install-deps
MainAnalyze(i, tree) ==
    /\ pc[i] = "main"
    /\ argv[i].command \in {"analyze", "install-deps"}
    /\ DoAnalyze(i, tree, "mapping", "scanerror")
    /\ UNCHANGED <<file, argv, tracked, queue, loaded, overlapped, pending>>

\* mapping = helper.suggest_apt_packages(deps), then the table is printed
MainTable(i) ==
    /\ pc[i] = "mapping"
    /\ argv[i].command = "analyze"
    /\ StartCall(i, "suggest", call[i].result, FALSE, suggest_apt_packages(call[i].result))
    /\ pc' = [pc EXCEPT ![i] = "ready"]
    /\ UNCHANGED <<file, argv, tracked, queue, log, loaded, overlapped, pending>>

\* mapping = helper.suggest_apt_packages(deps), then
\* helper.install_deps(list(mapping.values()))
MainInstall(i) ==
    /\ pc[i] = "mapping"
    /\ argv[i].command = "install-deps"
    /\ BeginInstall(i, DictValues(suggest_apt_packages(call[i].result)))
    /\ UNCHANGED <<argv, loaded, overlapped>>

\* helper.cleanup()
MainCleanup(i) ==
    /\ pc[i] = "main"
    /\ argv[i].command = "cleanup"
    /\ BeginCleanup(i)
    /\ UNCHANGED <<argv, loaded, overlapped>>

\* parser.print_help()
MainHelp(i) ==
    /\ pc[i] = "main"
    /\ argv[i].command = "none"
    /\ pc' = [pc EXCEPT ![i] = "ready"]
    /\ UNCHANGED <<file, argv, tracked, queue, call, prev, log, loaded, overlapped, pending>>

\* the process ends (normally or with the error that stopped it); a
\* later invocation starts afresh
Exit(i) ==
    /\ pc[i] \in {"ready", "argerror", "loaderror", "scanerror", "crashed"}
    /\ pc' = [pc EXCEPT ![i] = "idle"]
    /\ argv' = [argv EXCEPT ![i] = NoArgv]
    /\ tracked' = [tracked EXCEPT ![i] = <<>>]
    /\ queue' = [queue EXCEPT ![i] = <<>>]
    /\ call' = [call EXCEPT ![i] = NoCall]
    /\ prev' = [prev EXCEPT ![i] = "none"]
    /\ log' = [log EXCEPT ![i] = <<>>]
    /\ loaded' = [loaded EXCEPT ![i] = NotLoaded]
    /\ UNCHANGED <<file, overlapped, pending>>

Argvs == {[command |-> c, pkg |-> IF c = "track" THEN p ELSE <<>>] : c \in Commands, p \in Pkgs}

\* One invocation at a time: the tool's intended use.  The process slot is
\* reused by the invocations that follow one another.
Solo == {"A"}

Next ==
    \/ \E i \in Solo : NewHelper(i)
    \/ \E i \in Solo, pkg \in Pkgs : Track(i, pkg)
    \/ \E i \in Solo, pkgs \in SeqsUpTo(Pkgs, MaxPkgs) : InstallDeps(i, pkgs)
    \/ \E i \in Solo, rc \in ExitCodes : InstallStep(i, rc)
    \/ \E i \in Solo : Cleanup(i)
    \/ \E i \in Solo, rc \in ExitCodes : CleanupStep(i, rc)
    \/ \E i \in Solo : CleanupFinish(i)
    \/ \E i \in Solo, tree \in Trees : Analyze(i, tree)
    \/ \E i \in Solo, deps \in SeqsUpTo(DepNames, MaxPkgs) : Suggest(i, deps)
    \/ \E i \in Solo, av \in Argvs : MainStart(i, av)
    \/ \E i \in Solo, tree \in Trees : MainAnalyze(i, tree)
    \/ \E i \in Solo : MainTable(i)
    \/ \E i \in Solo : MainInstall(i)
    \/ \E i \in Solo : MainCleanup(i)
    \/ \E i \in Solo : MainHelp(i)
    \/ \E i \in Solo : Exit(i)

Spec == Init /\ [][Next]_vars

\* Two invocations of the command-line tool against the same tracking file,
\* with nothing to keep them apart (there is no file locking).
ConcTrees == { <<FileMeson>>, <<FileSetup, FileOther>>, <<FileLocked>> }

NextConc ==
    \/ \E i \in Inst, av \in Argvs : MainStart(i, av)
    \/ \E i \in Inst, tree \in ConcTrees : MainAnalyze(i, tree)
    \/ \E i \in Inst : MainTable(i)
    \/ \E i \in Inst : MainInstall(i)
    \/ \E i \in Inst, rc \in ExitCodes : InstallStep(i, rc)
    \/ \E i \in Inst : MainCleanup(i)
    \/ \E i \in Inst, rc \in ExitCodes : CleanupStep(i, rc)
    \/ \E i \in Inst : CleanupFinish(i)
    \/ \E i \in Inst : MainHelp(i)
    \/ \E i \in Inst : Exit(i)

SpecConc == Init /\ [][NextConc]_vars

\* ================================================================ claims
Completed(i, name) == pc[i] = "ready" /\ call[i].name = name

EventsOf(i, e) == SelectSeq(log[i], LAMBDA ev : ev.e = e)

PkgsOf(evs) == [k \in 1..Len(evs) |-> evs[k].pkg]

\* C1: no package occurs more than once in a helper's tracked list nor in
\* the file's packages array, and right after track(P) the list holds P
\* exactly once
C1_NoDuplicates ==
    /\ NoDup(FilePackages(file))
    /\ \A i \in Inst :
        /\ NoDup(tracked[i])
        /\ Completed(i, "track") => Count(tracked[i], call[i].args[1]) = 1

\* track(P) was called twice in succession on a helper that started empty
C1_Witness ==
    \E i \in Inst :
        /\ Completed(i, "track")
        /\ prev[i] = "track"
        /\ loaded[i].kind = "absent"
        /\ call[i].before = call[i].args
        /\ tracked[i] = call[i].args

\* C2: when cleanup() completes right after a track(P) call, the tracked
\* list is empty and the file holds an empty packages array
C2_TrackCleanupRoundTrip ==
    \A i \in Inst :
        Completed(i, "cleanup") /\ prev[i] = "track" =>
            /\ tracked[i] = <<>>
            /\ file = FileObject(<<>>)

\* cleanup() completed right after track(P), with other packages tracked
\* before P and a removal that failed
C2_Witness ==
    \E i \in Inst :
        /\ Completed(i, "cleanup")
        /\ prev[i] = "track"
        /\ Len(call[i].before) >= 2
        /\ \E k \in 1..Len(log[i]) : log[i][k].e = "remove" /\ log[i][k].rc # 0

\* C3 (as claimed): an invocation "track <package>", with a tracking file
\* that loads, is dispatched and leaves <package> in the tracked list and
\* in the file
C3_TrackCommandRecords ==
    \A i \in Inst :
        argv[i].command = "track" /\ file.kind \in {"absent", "object"} =>
            /\ pc[i] # "argerror"
            /\ argv[i].pkg \in Range(tracked[i])
            /\ argv[i].pkg \in Range(FilePackages(file))

\* C4: once install_deps(pkgs) has completed every package of pkgs is in
\* the tracked list and in the file, whatever the exit status of its install
\* command; and track(p) is never called before the install command of p
\* has been run
C4_TrackOnAttempt ==
    \A i \in Inst :
        /\ Completed(i, "install") =>
              \A p \in Range(call[i].args) :
                  p \in Range(tracked[i]) /\ p \in Range(FilePackages(file))
        /\ call[i].name = "install" =>
              \A k \in 1..Len(log[i]) :
                  log[i][k].e = "track" =>
                      \E j \in 1..(k-1) :
                          log[i][j].e = "install" /\ log[i][j].pkg = log[i][k].pkg

\* install_deps completed and the install command of a package that was not
\* tracked before had failed
C4_Witness ==
    \E i \in Inst :
        /\ Completed(i, "install")
        /\ \E k \in 1..Len(log[i]) :
              /\ log[i][k].e = "install"
              /\ log[i][k].rc # 0
              /\ log[i][k].pkg \notin Range(call[i].before)

\* C5: a failed command never stops an invocation; while a batch runs the
\* commands issued so far plus the packages still to go are the whole
\* batch, in order; a completed install_deps(pkgs) has issued one install
\* command per element of pkgs and a completed cleanup one remove command
\* per tracked package, and cleanup then emptied the list and saved it as
\* its last step
C5_BestEffortBatches ==
    \A i \in Inst :
        /\ pc[i] # "crashed"
        /\ call[i].name = "install" =>
              PkgsOf(EventsOf(i, "install")) \o queue[i] = call[i].args
        /\ call[i].name = "cleanup" =>
              PkgsOf(EventsOf(i, "remove")) \o queue[i] = call[i].before
        /\ Completed(i, "install") => queue[i] = <<>>
        /\ Completed(i, "cleanup") =>
              /\ queue[i] = <<>>
              /\ tracked[i] = <<>>
              /\ file = FileObject(<<>>)
              /\ log[i][Len(log[i])] = SaveEvent
              /\ Len(EventsOf(i, "save")) = 1

\* cleanup completed although the first of several removals failed
C5_Witness ==
    \E i \in Inst :
        /\ Completed(i, "cleanup")
        /\ Len(call[i].before) >= 2
        /\ log[i][1].e = "remove"
        /\ log[i][1].rc # 0

\* C6: as long as no invocation has started while another was running,
\* every package tracked since the last completed cleanup (or found in the
\* file at the start) is in the file
C6_NoLossWhenSerial ==
    ~overlapped => pending \subseteq Range(FilePackages(file))

\* two overlapping install-deps invocations have both finished and a
\* package one of them tracked is not in the file: the other's write won
C6_Witness ==
    /\ overlapped
    /\ \E i \in Inst : \E j \in Inst \ {i} :
          /\ argv[i].command = "install-deps" /\ Completed(i, "install")
          /\ argv[j].command = "install-deps" /\ Completed(j, "install")
          /\ \E p \in Range(tracked[i]) : p \notin Range(FilePackages(file))

\* C7: an invocation that found malformed JSON stopped with the load error,
\* ran no operation and left the file as it was; one that found no file, or
\* a JSON object without "packages", did not fail and started from the
\* empty list
C7_MalformedFailsFast ==
    \A i \in Inst :
        /\ loaded[i].kind = "malformed" =>
              /\ pc[i] = "loaderror"
              /\ call[i] = NoCall
              /\ log[i] = <<>>
              /\ file = FileMalformed
        /\ (loaded[i].kind = "absent" \/ loaded[i] = FileShape(FileNoField)) =>
              /\ pc[i] # "loaderror"
              /\ call[i] = NoCall => tracked[i] = <<>>

\* a command that is registered was given, and the constructor found
\* malformed JSON
C7_Witness ==
    \E i \in Inst :
        /\ loaded[i].kind = "malformed"
        /\ argv[i].command = "cleanup"
        /\ pc[i] = "loaderror"

\* d is c.lower() for a single character
IsLowerOf(c, d) ==
    IF \E k \in 1..26 : UpperCase[k] = c
    THEN \E k \in 1..26 : UpperCase[k] = c /\ LowerCase[k] = d
    ELSE d = c

\* pkg is "lib" + name in lowercase + "-dev"
IsAptName(name, pkg) ==
    /\ Len(pkg) = Len(name) + 7
    /\ SubSeq(pkg, 1, 3) = <<"l", "i", "b">>
    /\ SubSeq(pkg, Len(name) + 4, Len(name) + 7) = <<"-", "d", "e", "v">>
    /\ \A k \in 1..Len(name) : IsLowerOf(name[k], pkg[3 + k])

SuggestResultRight ==
    \A i \in Inst :
        call[i].name = "suggest" =>
            /\ DictKeys(call[i].result) = Range(call[i].args)
            /\ Len(call[i].result) = Cardinality(Range(call[i].args))
            /\ \A k \in 1..Len(call[i].result) :
                  IsAptName(call[i].result[k][1], call[i].result[k][2])

SuggestIsPure ==
    \A i \in Inst :
        call'[i].name = "suggest" /\ call'[i] # call[i] =>
            tracked' = tracked /\ file' = file

\* C8: the mapping suggest_apt_packages returns has exactly one entry per
\* distinct name, each name mapped to "lib" + lowercase(name) + "-dev", and
\* a call changes neither a tracked list nor the file
C8_ResolverPure == []SuggestResultRight /\ [][SuggestIsPure]_vars

\* the resolver was given a list that repeats a name with capitals
C8_Witness ==
    \E i \in Inst :
        /\ call[i].name = "suggest"
        /\ call[i].args = <<DepAb, DepAb>>
        /\ Len(call[i].result) = 1

\* the names of the recognized files of a tree that can be opened
ReadableDeps(tree) ==
    UNION {parse_dependencies(tree[k].name, read_ignore(tree[k].content)) :
              k \in {n \in 1..Len(tree) : tree[n].name \in RecognizedNames /\ tree[n].mode = "ok"}}

\* C9 (as claimed): analyze never lets an error reach its caller, and it
\* returns, without duplicates, the names of the recognized files that
\* could be read
C9_ScanErrorsAbsorbed ==
    \A i \in Inst :
        call[i].name = "analyze" =>
            /\ ~call[i].error
            /\ NoDup(call[i].result)
            /\ Range(call[i].result) = ReadableDeps(call[i].args)

\* C10: after a completed track, install_deps or cleanup the file's
\* packages array is the tracked list, in the same order; a track(p) for a
\* package that was already tracked changed nothing and did not save
C10_MemoryDiskConsistent ==
    \A i \in Inst :
        /\ (Completed(i, "track") \/ Completed(i, "install") \/ Completed(i, "cleanup")) =>
              FilePackages(file) = tracked[i]
        /\ Completed(i, "track") /\ call[i].args[1] \in Range(call[i].before) =>
              /\ tracked[i] = call[i].before
              /\ file = FileObject(call[i].before)
              /\ EventsOf(i, "save") = <<>>

\* track(p) completed for a p that was tracked already, second in a list of
\* two
C10_Witness ==
    \E i \in Inst :
        /\ Completed(i, "track")
        /\ Len(call[i].before) = 2
        /\ call[i].args[1] = call[i].before[2]
        /\ log[i] = <<Event("track", call[i].args[1], 0)>>

====
